---- MODULE Spec2Model ----
(***************************************************************************)
(* A model of supervise.py: the Service handle of a runit / daemontools    *)
(* service.  Service.__init__ binds the control and status paths, the      *)
(* command methods write one character to the control FIFO, and            *)
(* Service.status() decodes the binary status record.                      *)
(*                                                                         *)
(* Python values are tagged with their type, so that the interpreter's     *)
(* behaviour on mixed types (None + str, int == str) is computed and not   *)
(* assumed.  A str is a sequence of tokens: single characters, and for     *)
(* paths whole path segments, with "/" always a token of its own.          *)
(***************************************************************************)
EXTENDS Integers, Sequences, FiniteSets, TLC

VARIABLES
    environ,              \* the process environment: variable name -> str
    DEFAULT_SERVICE_DIR,  \* the module global, Unbound before the import
    svc,                  \* the Service object, or what its constructor raised
    ctorArg,              \* the argument Service(...) was called with
    control,              \* what the control FIFO has received, in order
    calls,                \* the command methods called so far, in order
    statusFile,           \* the bytes of <service>/supervise/status
    downMarker,           \* the state of <service>/down
    now,                  \* long(time.time())
    result                \* what the last call of status() produced

vars == <<environ, DEFAULT_SERVICE_DIR, svc, ctorArg, control, calls,
          statusFile, downMarker, now, result>>

\* ------------------------------------------------------------ bounds
MaxCalls == 2

\* ----------------------------------------------------- Python values
None == [type |-> "NoneType"]
Unbound == [type |-> "unbound"]
PyStr(s) == [type |-> "str", val |-> s]
PyInt(n) == [type |-> "int", val |-> n]
Raised(e) == [type |-> "raised", error |-> e]

\* a == b: values of different types are never equal (Python 2 compares an
\* int with a str without raising, and finds them different).
PyEq(a, b) == a.type = b.type /\ a.val = b.val

\* a + b on str operands; None + str raises TypeError.
PyAdd(a, b) ==
    IF a.type = "raised" THEN a
    ELSE IF b.type = "raised" THEN b
    ELSE IF a.type = "str" /\ b.type = "str" THEN PyStr(a.val \o b.val)
    ELSE Raised("TypeError")

\* ------------------------------------------------------- module level
\* os.getenv(name): the value, or None when the variable is not set.
getenv(env, name) == IF name \in DOMAIN env THEN env[name] ELSE None

\* Lines 94-100: the literal default is assigned first, and then always
\* overwritten by what os.getenv returns (the import of os does not fail).
ModuleDefaultServiceDir(env) ==
    LET literal == PyStr(<<"/", "var", "/", "service">>)
        fromEnv == getenv(env, "SERVICE_DIR")
    IN  fromEnv

\* ------------------------------------------------------- Service.__init__
SuperviseControl == PyStr(<<"/", "supervise", "/", "control">>)
SuperviseStatus == PyStr(<<"/", "supervise", "/", "status">>)

ServiceInit(service, defaultDir) ==
    LET dir == IF service.val[1] = "/" THEN service
               ELSE PyAdd(PyAdd(defaultDir, PyStr(<<"/">>)), service)
    IN  IF dir.type = "raised" THEN dir
        ELSE [type |-> "Service",
              service |-> dir,
              control |-> PyAdd(dir, SuperviseControl),
              status |-> PyAdd(dir, SuperviseStatus)]

\* ------------------------------------------------------------ inputs
Environs ==
    { [n \in {} |-> None],
      [n \in {"SERVICE_DIR"} |-> PyStr(<<"/", "etc", "/", "sv">>)],
      [n \in {"HOME"} |-> PyStr(<<"/", "root">>)] }

ServiceNames ==
    { PyStr(<<"test">>), PyStr(<<"/", "var", "/", "service", "/", "httpd">>),
      PyStr(<<"/", "srv", "/", "sshd">>) }

CustomChars == {"u", "z"}

\* ------------------------------------------------------------ commands
\* A variant of _signal that writes the character as a line.
signal_line(signal) == control' = control \o signal.val \o <<"\n">>

\* Service._signal: open(self._control, "w+"), write, close.  The control
\* path is the supervisor's FIFO, so opening it truncates nothing and the
\* supervisor receives the characters of the argument in order.
_signal(signal) == control' = control \o signal.val

start == _signal(PyStr(<<"u">>))
pause == _signal(PyStr(<<"p">>))
alarm == _signal(PyStr(<<"a">>))
terminate == _signal(PyStr(<<"t">>))
exit == _signal(PyStr(<<"x">>))
kill == _signal(PyStr(<<"k">>))
user1 == _signal(PyStr(<<"1">>))
user2 == _signal(PyStr(<<"2">>))
quit == _signal(PyStr(<<"q">>))
interrupt == _signal(PyStr(<<"i">>))
hangup == _signal(PyStr(<<"h">>))
cont == _signal(PyStr(<<"c">>))
once == _signal(PyStr(<<"o">>))
stop == _signal(PyStr(<<"d">>))

\* The aliases __init__ binds on the instance.
up == start
down == stop
hup == hangup
custom(signal) == _signal(signal)

\* A caller invokes one method of the constructed Service.
Invoke(name, method) ==
    /\ svc.type = "Service"
    /\ Len(calls) < MaxCalls
    /\ method
    /\ calls' = Append(calls, name)
    /\ UNCHANGED <<environ, DEFAULT_SERVICE_DIR, svc, ctorArg,
                   statusFile, downMarker, now, result>>

Command ==
    \/ Invoke(<<"start">>, start)
    \/ Invoke(<<"up">>, up)
    \/ Invoke(<<"stop">>, stop)
    \/ Invoke(<<"down">>, down)
    \/ Invoke(<<"pause">>, pause)
    \/ Invoke(<<"alarm">>, alarm)
    \/ Invoke(<<"terminate">>, terminate)
    \/ Invoke(<<"exit">>, exit)
    \/ Invoke(<<"kill">>, kill)
    \/ Invoke(<<"user1">>, user1)
    \/ Invoke(<<"user2">>, user2)
    \/ Invoke(<<"quit">>, quit)
    \/ Invoke(<<"interrupt">>, interrupt)
    \/ Invoke(<<"hangup">>, hangup)
    \/ Invoke(<<"hup">>, hup)
    \/ Invoke(<<"cont">>, cont)
    \/ Invoke(<<"once">>, once)
    \/ \E c \in CustomChars : Invoke(<<"custom", c>>, custom(PyStr(<<c>>)))

\* ------------------------------------------------------ long arithmetic
\* A Python long is unbounded; the timestamps are near 2^62.  A long is
\* modelled by its base-256 digits, most significant first, without
\* leading zeros (zero is the empty sequence).
RECURSIVE LongNorm(_)
LongNorm(x) == IF x # <<>> /\ Head(x) = 0 THEN LongNorm(Tail(x)) ELSE x

RECURSIVE LongOf(_)
LongOf(n) == IF n = 0 THEN <<>> ELSE Append(LongOf(n \div 256), n % 256)

\* the digit of weight 256^i
Digit(x, i) == IF i < Len(x) THEN x[Len(x) - i] ELSE 0

RECURSIVE AddFrom(_, _, _, _)
AddFrom(x, y, i, carry) ==
    IF i >= Len(x) /\ i >= Len(y)
    THEN IF carry = 0 THEN <<>> ELSE <<carry>>
    ELSE LET t == Digit(x, i) + Digit(y, i) + carry
         IN  Append(AddFrom(x, y, i + 1, t \div 256), t % 256)

LongAdd(x, y) == LongNorm(AddFrom(x, y, 0, 0))

RECURSIVE SubFrom(_, _, _, _)
SubFrom(x, y, i, borrow) ==
    IF i >= Len(x) THEN <<>>
    ELSE LET t == Digit(x, i) - Digit(y, i) - borrow
         IN  Append(SubFrom(x, y, i + 1, IF t < 0 THEN 1 ELSE 0),
                    IF t < 0 THEN t + 256 ELSE t)

LongLess(x, y) ==
    \/ Len(x) < Len(y)
    \/ /\ Len(x) = Len(y)
       /\ \E i \in 1..Len(x) :
            /\ x[i] < y[i]
            /\ \A j \in 1..(i - 1) : x[j] = y[j]

\* x - y, for y <= x
LongSub(x, y) == LongNorm(SubFrom(x, y, 0, 0))

\* x <<= 8
LongShl8(x) == IF x = <<>> THEN <<>> ELSE Append(x, 0)

\* ------------------------------------------------------ module constants
\* 4611686018427387914 = 0x400000000000000A
DEFAULT_EPOCH == <<64, 0, 0, 0, 0, 0, 0, 10>>

STATUS_DOWN == 0
STATUS_UP == 1
STATUS_FINISH == 2

NORMALLY_DOWN == 0
NORMALLY_UP == 1
PAUSED == 2
WANT_UP == 17
WANT_DOWN == 16
GOT_TERM == 9

\* ------------------------------------------------------- Service.status
\* f.read(n): at most n bytes
Read(file, n) == SubSeq(file, 1, IF Len(file) < n THEN Len(file) ELSE n)

\* struct.Struct("20B").unpack_from(buf): a tuple of 20 ints, indexed from
\* 0; struct.error when the buffer holds fewer than 20 bytes.
unpack_from(buf) ==
    IF Len(buf) < 20 THEN Raised("struct.error")
    ELSE [type |-> "tuple", val |-> [i \in 0..19 |-> buf[i + 1]]]

\* open(self.service + "/down", "r")
OpenDown(marker) ==
    CASE marker = "present" -> [type |-> "file"]
      [] marker = "absent" -> [type |-> "raised", error |-> "IOError", errno |-> "ENOENT"]
      [] marker = "unreadable" -> [type |-> "raised", error |-> "IOError", errno |-> "EACCES"]

\* Lines 295-305: every IOError of the probe sets normallyup.
NormallyUp(marker) ==
    LET f == OpenDown(marker)
    IN  IF f.type = "raised" /\ f.error = "IOError" THEN 1 ELSE 0

\* A variant of DecodePid that reads the four bytes most significant first.
DecodePid_bigendian(s) ==
    LET p0 == s[12]
        p1 == p0 * 256 + s[13]
        p2 == p1 * 256 + s[14]
        p3 == p2 * 256 + s[15]
    IN  p3

\* Lines 307-310
DecodePid(s) ==
    LET p0 == s[15]
        p1 == p0 * 256 + s[14]
        p2 == p1 * 256 + s[13]
        p3 == p2 * 256 + s[12]
    IN  p3

\* A variant of PidAndStatus that leaves pid 0 instead of None when down.
PidAndStatus_keepzero(rawpid, s) ==
    IF rawpid # 0
    THEN [pid |-> PyInt(rawpid),
          status |-> IF s[19] = 2 THEN PyInt(STATUS_FINISH)
                     ELSE IF s[19] = 1 THEN PyInt(STATUS_UP)
                     ELSE Unbound]
    ELSE [pid |-> PyInt(rawpid), status |-> PyInt(STATUS_DOWN)]

\* Lines 312-317: the locals pid and status after the branch; status stays
\* unbound when pid is non-zero and s[19] is neither 1 nor 2.
PidAndStatus(rawpid, s) ==
    IF rawpid # 0
    THEN [pid |-> PyInt(rawpid),
          status |-> IF s[19] = 2 THEN PyInt(STATUS_FINISH)
                     ELSE IF s[19] = 1 THEN PyInt(STATUS_UP)
                     ELSE Unbound]
    ELSE [pid |-> None, status |-> PyInt(STATUS_DOWN)]

\* truth value of None or an int
Truthy(v) == v.type = "int" /\ v.val # 0

\* Lines 319-325: s holds ints, and s[17] is compared with a str.
DecodeAction(pid, normallyup, s) ==
    LET a0 == None
        a1 == IF Truthy(pid) /\ normallyup = 0 THEN PyInt(NORMALLY_DOWN) ELSE a0
        a2 == IF ~Truthy(pid) /\ normallyup # 0 THEN PyInt(NORMALLY_UP) ELSE a1
        a3 == IF Truthy(pid) /\ s[16] # 0 THEN PyInt(PAUSED) ELSE a2
        a4 == IF ~Truthy(pid) /\ PyEq(PyInt(s[17]), PyStr(<<"u">>))
              THEN PyInt(WANT_UP) ELSE a3
        a5 == IF Truthy(pid) /\ PyEq(PyInt(s[17]), PyStr(<<"d">>))
              THEN PyInt(WANT_DOWN) ELSE a4
        a6 == IF Truthy(pid) /\ s[18] # 0 THEN PyInt(GOT_TERM) ELSE a5
    IN  a6

\* Lines 333-340: the timestamp, eight bytes accumulated by shifts
DecodeSeconds(s) ==
    LET x0 == LongOf(s[0])
        x1 == LongAdd(LongShl8(x0), LongOf(s[1]))
        x2 == LongAdd(LongShl8(x1), LongOf(s[2]))
        x3 == LongAdd(LongShl8(x2), LongOf(s[3]))
        x4 == LongAdd(LongShl8(x3), LongOf(s[4]))
        x5 == LongAdd(LongShl8(x4), LongOf(s[5]))
        x6 == LongAdd(LongShl8(x5), LongOf(s[6]))
        x7 == LongAdd(LongShl8(x6), LongOf(s[7]))
    IN  x7

\* A variant of Uptime that compares the unbiased clock with the timestamp.
Uptime_unbiased(clock, s) ==
    LET n == LongOf(clock)
        x == DecodeSeconds(s)
    IN  IF LongLess(n, x) THEN <<>> ELSE LongSub(n, x)

\* Lines 330 and 342
Uptime(clock, s) ==
    LET n == LongAdd(LongOf(clock), DEFAULT_EPOCH)
        x == DecodeSeconds(s)
    IN  IF LongLess(n, x) THEN <<>> ELSE LongSub(n, x)

\* Service.status(): the ServiceStatus returned, or the exception raised.
\* The time module is always importable, so line 344 is never reached.
status(file, marker, clock) ==
    LET t == unpack_from(Read(file, 20))
    IN  IF t.type = "raised" THEN t
        ELSE LET s == t.val
                 normallyup == NormallyUp(marker)
                 ps == PidAndStatus(DecodePid(s), s)
                 action == DecodeAction(ps.pid, normallyup, s)
                 x == Uptime(clock, s)
             IN  IF ps.status = Unbound THEN Raised("UnboundLocalError")
                 ELSE [type |-> "ServiceStatus",
                       status |-> ps.status,
                       pid |-> ps.pid,
                       action |-> action,
                       uptime |-> [type |-> "long", val |-> x]]

\* A caller invokes status() on the constructed Service.
Status ==
    /\ svc.type = "Service"
    /\ result' = status(statusFile, downMarker, now)
    /\ UNCHANGED <<environ, DEFAULT_SERVICE_DIR, svc, ctorArg, control, calls,
                   statusFile, downMarker, now>>

\* ------------------------------------------------------- status inputs
\* The 21 bytes a supervisor may have written, from the record's fields.
Record21(ts, pidbytes, paused, want, term, finish) ==
    ts \o <<0, 0, 0, 0>> \o pidbytes \o <<paused, want, term, finish, 0>>

Timestamps ==
    { <<64, 0, 0, 0, 0, 0, 0, 10>>,        \* the epoch itself
      <<64, 0, 0, 0, 0, 0, 3, 242>>,       \* 1000 s after it
      <<0, 0, 0, 0, 0, 0, 0, 0>>,
      <<64, 0, 0, 1, 0, 0, 0, 0>>,
      <<255, 255, 255, 255, 255, 255, 255, 255>> }

PidBytes ==
    { <<0, 0, 0, 0>>, <<0, 0, 0, 1>>, <<1, 0, 0, 0>>, <<57, 48, 0, 0>> }

FileLengths == {0, 17, 18, 19, 20, 21}
PausedFlags == {0, 1}
WantFlags == {117, 100, 0}
TermFlags == {0, 1}
FinishFlags == {0, 1, 2}

StatusFiles ==
    { SubSeq(Record21(ts, pb, p, w, t, f), 1, len) :
        ts \in Timestamps, pb \in PidBytes, p \in PausedFlags,
        w \in WantFlags, t \in TermFlags, f \in FinishFlags,
        len \in FileLengths }

Markers == {"absent", "present", "unreadable"}
Clocks == {0, 1000, 1762000000}

\* ------------------------------------------------ import and construction
\* "import supervise": the module body runs once.
Import ==
    /\ DEFAULT_SERVICE_DIR = Unbound
    /\ DEFAULT_SERVICE_DIR' = ModuleDefaultServiceDir(environ)
    /\ UNCHANGED <<environ, svc, ctorArg, control, calls,
                   statusFile, downMarker, now, result>>

\* Service(service)
Construct ==
    /\ DEFAULT_SERVICE_DIR # Unbound
    /\ svc = Unbound
    /\ \E service \in ServiceNames :
          /\ ctorArg' = service
          /\ svc' = ServiceInit(service, DEFAULT_SERVICE_DIR)
    /\ UNCHANGED <<environ, DEFAULT_SERVICE_DIR, control, calls,
                   statusFile, downMarker, now, result>>

\* Two of the records: a running service and a stopped one.
SampleStatusFiles ==
    { SubSeq(Record21(<<64, 0, 0, 0, 0, 0, 0, 10>>, <<57, 48, 0, 0>>, 0, 117, 0, 1), 1, 20),
      SubSeq(Record21(<<64, 0, 0, 0, 0, 0, 0, 10>>, <<0, 0, 0, 0>>, 0, 100, 0, 0), 1, 20) }

Init ==
    /\ environ \in Environs
    /\ DEFAULT_SERVICE_DIR = Unbound
    /\ svc = Unbound
    /\ ctorArg = None
    /\ control = <<>>
    /\ calls = <<>>
    /\ statusFile \in SampleStatusFiles
    /\ downMarker = "absent"
    /\ now = 1000
    /\ result = Unbound

Next == Import \/ Construct \/ Command \/ Status

Spec == Init /\ [][Next]_vars

\* The decoder on every input: a Service bound to an absolute path reads a
\* status file, a marker state and a clock drawn from the input sets.
InitStatus ==
    /\ environ \in Environs
    /\ DEFAULT_SERVICE_DIR = ModuleDefaultServiceDir(environ)
    /\ ctorArg = PyStr(<<"/", "srv", "/", "sshd">>)
    /\ svc = ServiceInit(ctorArg, DEFAULT_SERVICE_DIR)
    /\ control = <<>>
    /\ calls = <<>>
    /\ statusFile \in StatusFiles
    /\ downMarker \in Markers
    /\ now \in Clocks
    /\ result = Unbound

NextStatus == Status

SpecStatus == InitStatus /\ [][NextStatus]_vars

\* =================================================================== claims
\* The byte at offset i of the status file, and what the last status() did.
Byte(i) == statusFile[i + 1]
Called == result # Unbound
LengthRejected == result.type = "raised" /\ result.error = "struct.error"
Accepted == Called /\ ~LengthRejected
Returned == result.type = "ServiceStatus"
WirePidZero == \A i \in 12..15 : Byte(i) = 0
PidPresent == result.pid.type = "int" /\ result.pid.val > 0

\* C1: status() accepts a status buffer if and only if its length is 18 or
\* 20 bytes: status files of any other length (0, 17, 19, 21) fail with the
\* decode error, and files of length 18 or 20 never do.
C1_AcceptsExactly18Or20 ==
    Called => (LengthRejected <=> Len(statusFile) \notin {18, 20})

\* The byte the command table of the specification gives each operation.
TableByte(call) ==
    CASE call[1] \in {"start", "up"} -> "u"
      [] call[1] \in {"stop", "down"} -> "d"
      [] call[1] = "pause" -> "p"
      [] call[1] = "alarm" -> "a"
      [] call[1] = "terminate" -> "t"
      [] call[1] = "exit" -> "x"
      [] call[1] = "kill" -> "k"
      [] call[1] = "user1" -> "1"
      [] call[1] = "user2" -> "2"
      [] call[1] = "quit" -> "q"
      [] call[1] = "interrupt" -> "i"
      [] call[1] \in {"hangup", "hup"} -> "h"
      [] call[1] = "cont" -> "c"
      [] call[1] = "once" -> "o"
      [] call[1] = "custom" -> call[2]

\* C2: after any sequence of command calls the control channel has received
\* exactly one byte per call, in call order, and the byte of each call is
\* the one of the command table (for custom, the character passed).
C2_OneTableBytePerCall ==
    /\ Len(control) = Len(calls)
    /\ \A i \in 1..Len(calls) : control[i] = TableByte(calls[i])

\* C2 witness: two different commands were sent, an alias among them.
C2_TwoCommandsSent ==
    /\ Len(calls) >= 2
    /\ calls[1] = <<"stop">>
    /\ calls[2] = <<"hup">>
    /\ control = <<"d", "h">>

\* C3: for every accepted record whose decoded pid is non-zero, status()
\* returns FINISH when the finish flag (byte 19) is 2 and UP for every other
\* value of the finish flag.
C3_FinishElseUp ==
    (Accepted /\ ~WirePidZero) =>
        /\ Returned
        /\ result.status =
             IF Byte(19) = 2 THEN PyInt(STATUS_FINISH) ELSE PyInt(STATUS_UP)

\* C4: in every ServiceStatus returned, pid is present (a positive integer)
\* if and only if status is UP or FINISH, and is None otherwise; a record
\* whose wire pid bytes are all zero yields DOWN with pid None.
C4_PidIffUpOrFinish ==
    Returned =>
        /\ result.pid = None \/ PidPresent
        /\ PidPresent <=>
             result.status \in {PyInt(STATUS_UP), PyInt(STATUS_FINISH)}
        /\ WirePidZero =>
             result.status = PyInt(STATUS_DOWN) /\ result.pid = None

\* C4 witness: a record with zero pid bytes was decoded to DOWN without pid.
C4_DownWithoutPid ==
    /\ Returned
    /\ WirePidZero
    /\ result.pid = None
    /\ result.status = PyInt(STATUS_DOWN)

\* C5: in a returned record, pid absent and want flag 'u' (0x75) give action
\* WANT_UP, and pid present, want flag 'd' (0x64) and term flag zero give
\* action WANT_DOWN.
C5_WantFlagDrivesAction ==
    /\ (Returned /\ result.pid = None /\ Byte(17) = 117)
          => result.action = PyInt(WANT_UP)
    /\ (Returned /\ result.pid # None /\ Byte(17) = 100 /\ Byte(18) = 0)
          => result.action = PyInt(WANT_DOWN)

\* C6: for every accepted record with pid present, the down marker present,
\* the paused flag set, want flag not 'd' and term flag zero the action is
\* PAUSED; for every accepted record with pid present and the term flag set
\* the action is GOT_TERM, whatever the other flags are.
C6_LaterRuleWins ==
    /\ (Accepted /\ ~WirePidZero /\ downMarker = "present"
          /\ Byte(16) # 0 /\ Byte(17) # 100 /\ Byte(18) = 0)
          => (Returned /\ result.action = PyInt(PAUSED))
    /\ (Accepted /\ ~WirePidZero /\ Byte(18) # 0)
          => (Returned /\ result.action = PyInt(GOT_TERM))

WirePidBytes == <<Byte(12), Byte(13), Byte(14), Byte(15)>>

\* C7 as stated: a record whose bytes at offsets 12..15 are 00 00 00 01
\* decodes to pid 1.
C7_BytesDecodeToOne ==
    (Returned /\ WirePidBytes = <<0, 0, 0, 1>>) => result.pid = PyInt(1)

\* C7 as amended: byte 12 is the least significant byte of the pid, so
\* 00 00 00 01 decodes to 16777216 and 01 00 00 00 decodes to 1.
C7_PidLittleEndian ==
    /\ (Returned /\ WirePidBytes = <<0, 0, 0, 1>>)
          => result.pid = PyInt(16777216)
    /\ (Returned /\ WirePidBytes = <<1, 0, 0, 0>>)
          => result.pid = PyInt(1)

\* C7 witness: a record with pid bytes 00 00 00 01 was returned.
C7_HighByteDecoded ==
    /\ Returned
    /\ WirePidBytes = <<0, 0, 0, 1>>
    /\ result.pid.val = 16777216

\* now + DEFAULT_EPOCH, written out: the clock stays below 2^31 - 10, so the
\* sum is 0x40000000 followed by the four bytes of now + 10.
BiasedNow ==
    LET m == now + 10
    IN  <<64, 0, 0, 0, m \div 16777216, (m \div 65536) % 256,
          (m \div 256) % 256, m % 256>>

\* The big-endian value of bytes 0..7: its base-256 digits are those bytes.
WireSeconds == LongNorm(SubSeq(statusFile, 1, 8))

\* C8: the returned uptime is max(0, (now + DEFAULT_EPOCH) - seconds) with
\* seconds the big-endian value of bytes 0..7: it is a natural number, it is
\* 0 when the timestamp lies in the future of the biased clock, and
\* otherwise uptime + seconds is the biased clock.
C8_UptimeClamped ==
    Returned =>
        /\ \A i \in 1..Len(result.uptime.val) : result.uptime.val[i] \in 0..255
        /\ LongLess(BiasedNow, WireSeconds) => result.uptime.val = <<>>
        /\ ~LongLess(BiasedNow, WireSeconds)
              => LongAdd(result.uptime.val, WireSeconds) = BiasedNow

\* C8 witness: a timestamp in the future was clamped to uptime 0.
C8_FutureClamped ==
    /\ Returned
    /\ LongLess(BiasedNow, WireSeconds)
    /\ result.uptime.val = <<>>

\* C9: when the probe of the down marker fails otherwise than with "file
\* does not exist" (permission denied), status() returns no record.
C9_ProbeFailureReturnsNoRecord ==
    downMarker = "unreadable" => ~Returned

\* The base directory of the specification: SERVICE_DIR when set, else
\* /var/service.
BaseDir ==
    IF "SERVICE_DIR" \in DOMAIN environ THEN environ["SERVICE_DIR"].val
    ELSE <<"/", "var", "/", "service">>

\* C10: an absolute service path is used verbatim and a relative name is
\* joined under the base directory (SERVICE_DIR when set, /var/service when
\* not); the control and status paths are <service>/supervise/control and
\* <service>/supervise/status.
C10_PathBinding ==
    svc # Unbound =>
        LET dir == IF ctorArg.val[1] = "/" THEN ctorArg.val
                   ELSE BaseDir \o <<"/">> \o ctorArg.val
        IN  /\ svc.type = "Service"
            /\ svc.service = PyStr(dir)
            /\ svc.control = PyStr(dir \o <<"/", "supervise", "/", "control">>)
            /\ svc.status = PyStr(dir \o <<"/", "supervise", "/", "status">>)

====
